---- MODULE Spec2Model ----
(***************************************************************************)
(* Model of bhunjadi:mongo-transactions (runInTransaction, the patched     *)
(* collection methods, the callback tracker and the patched                *)
(* Meteor.bindEnvironment).  Fibers call runInTransaction; each call binds *)
(* a SessionContext into sessionVariable for the extent of the unit of     *)
(* work.  The MongoDB driver is modelled as sessions that stage writes     *)
(* while a transaction is active and apply them to the store on commit.    *)
(***************************************************************************)
EXTENDS Integers, Sequences, FiniteSets, TLC

\* ---------------------------------------------------------------- bounds
MaxOps      == 2   \* intercepted operations a fiber's unit of work makes, over all its runs
MaxOpsConc  == 1   \* the same, when two fibers run concurrently
MaxAttempts == 2   \* runs of the body made by session.withTransaction

\* insertInvoice (tests): one invoice and its two items.
InvoiceInserts == 3

\* 'works concurrently' (tests): the invoice's total, and what each
\* updateInvoiceInTransaction call adds to it.
InitialTotal == 50
Increment    == 50

VARIABLES
    callers,    \* the fibers of this run (fixed at Init)
    dynamics,   \* per fiber: the value of sessionVariable (0 = undefined)
    pc,         \* per fiber: where its runInTransaction call stands
    frame,      \* per fiber: local variables of its runInTransaction call
    ctxs,       \* per context: the SessionContext object
    sessions,   \* per session: the driver's ClientSession
    store,      \* the documents the database holds (committed)
    cbs,        \* per fiber: the wrapped callbacks registered from it
    outcome,    \* per fiber: what runInTransaction returned or threw
    opsLog,     \* operations handed to the driver: <<issuing fiber, session>>
    opened,     \* per fiber: number of startSession calls
    limit,      \* operations a unit of work may make in this run (fixed at Init)
    delivered,  \* the last call of a patched RawCollection method: what the
                \* caller passed and what the original method received
    defaultOptions, \* the module-level `let defaultOptions`
    lastPassed  \* history: the argument of the latest setDefaultOptions call

vars == <<callers, dynamics, pc, frame, ctxs, sessions, store, cbs, outcome,
          opsLog, opened, limit, delivered, defaultOptions, lastPassed>>

\* Two fibers: enough for two unrelated concurrent transactions.
Fibers == {1, 2}
NoCtx  == 0

\* ---------------------------------------------------------------- errors
\* A thrown value: its JavaScript kind, its message, and (CallbackError
\* only) the errors it carries.
Err(k, m) == [kind |-> k, msg |-> m, errors |-> <<>>]
NoErr        == Err("none", "")
UserErr      == Err("Error", "boom")
NestedErr    == Err("Error", "Nested transactions are not supported")
TransientErr == Err("TransientTransactionError", "write conflict")
StartErr     == Err("MongoError", "startTransaction failed")
CommitErr    == Err("MongoError", "commitTransaction failed")
AbortErr     == Err("MongoError", "abortTransaction failed")
ExpiredErr   == Err("MongoError", "Use of expired sessions is not permitted")

\* What a callback may throw: an Error, a string, another value.
CbThrowables == {Err("Error", "fail"), Err("string", "oops")}

\* JavaScript truthiness of a thrown value.
Truthy(e) == ~(e.kind = "string" /\ e.msg = "") /\ ~(e.kind = "number" /\ e.msg = "0")

IsErrorInstance(e) == e.kind \in {"Error", "MongoError", "TransientTransactionError", "CallbackError"}

CreateCallbackErrorUnknown(errors) ==
    [kind |-> "CallbackError", msg |-> "Unknown callback error.", errors |-> errors]

CreateCallbackError(errors) ==
    LET first == errors[1]
        message == IF first.kind = "string" THEN first.msg
                   ELSE IF IsErrorInstance(first) THEN first.msg
                   ELSE "Unknown callback error."
    IN  [kind |-> "CallbackError", msg |-> message, errors |-> errors]

\* ---------------------------------------------------------------- driver
\* Documents are <<owner fiber, index, revision>>; index 0 is the owner's
\* seed document, revision 0 its original content.
Seed(f) == <<f, 0, 0>>

\* The invoice two clients update at once: <<0, 0, total>>.
InvoiceDoc(t) == <<0, 0, t>>

Totals == {InitialTotal, InitialTotal + Increment, InitialTotal + 2 * Increment}

FreshSession == [txn |-> "none", ended |-> 0, ins |-> {}, del |-> {}]

StartTransaction(s) == [s EXCEPT !.txn = "active", !.ins = {}, !.del = {}]

CommitTransaction(s) == [s EXCEPT !.txn = "committed", !.ins = {}, !.del = {}]

CommittedStoreUnchanged(st, s) == st

CommittedStore(st, s) == (st \ s.del) \cup s.ins

AbortTransaction(s) == [s EXCEPT !.txn = "aborted", !.ins = {}, !.del = {}]

\* endSession aborts a transaction still in progress.
EndSession(s) ==
    [(IF s.txn = "active" THEN AbortTransaction(s) ELSE s) EXCEPT !.ended = @ + 1]

InTransaction(s) == s.txn = "active"

\* The overlay [ins, del] after write w = [op, f, n, a] seen over store st.
Overlay(o, st, w) ==
    LET view    == (st \ o.del) \cup o.ins
        targets == {d \in view : d[1] = w.f /\ d[2] = 0}
    IN  CASE w.op = "insert" -> [o EXCEPT !.ins = @ \cup {<<w.f, w.n, w.a>>}]
          [] w.op = "update" ->
                IF targets = {} THEN o
                ELSE [o EXCEPT !.del = @ \cup (targets \cap st),
                               !.ins = (@ \ targets) \cup {<<w.f, 0, w.a>>}]
          [] OTHER ->
                [o EXCEPT !.del = @ \cup (targets \cap st), !.ins = @ \ targets]

\* Whether the session an operation carries (if it is one of ours) has not
\* been ended.
Live(sid) == sid \notin DOMAIN sessions \/ sessions[sid].ended = 0

\* A write handed to the driver with options.session = sid (0: no session).
\* With an active transaction it is staged; with an ended session it is
\* refused; otherwise it is applied to the store at once.
WriteRefused(sid) == sid # 0 /\ sessions[sid].ended > 0

WriteStaged(sid) == sid # 0 /\ sessions[sid].ended = 0 /\ InTransaction(sessions[sid])

SessionsAfterWrite(sid, w) ==
    IF WriteStaged(sid)
    THEN [sessions EXCEPT ![sid] = Overlay(@, store, w)]
    ELSE sessions

StoreAfterWrite(sid, w) ==
    IF WriteStaged(sid) \/ WriteRefused(sid) THEN store
    ELSE LET o == Overlay([ins |-> {}, del |-> {}], store, w)
         IN  (store \ o.del) \cup o.ins

\* ------------------------------------------------- sessionVariable (slot)
Get(f) == dynamics[f]

WithValueBindAll(dyn, f, c) == [g \in DOMAIN dyn |-> c]

WithValueBind(dyn, f, c) == [dyn EXCEPT ![f] = c]

WithValueKeeps(dyn, f, saved) == dyn

WithValueRestore(dyn, f, saved) == [dyn EXCEPT ![f] = saved]

\* ---------------------------------------------------------- interceptor
\* getOptionsAndCallbackArgs: the session put into the options, 0 when no
\* context is ambient (the arguments are passed on untouched).
InjectedSessionNone(c) == 0

InjectedSession(c) == IF c = NoCtx THEN 0 ELSE ctxs[c].session

\* Argument values: undefined, a business parameter, a function, an options
\* object (session: 0 when it has none; key: whether it has another key), an
\* array.
Val(k, session, key, items) ==
    [k |-> k, session |-> session, key |-> key, wrapped |-> FALSE, items |-> items]

Undef == Val("undef", 0, FALSE, <<>>)
Param == Val("param", 0, FALSE, <<>>)
Fn    == Val("fn", 0, FALSE, <<>>)
Opts(session, key) == Val("opts", session, key, <<>>)
Arr(items) == Val("array", 0, FALSE, items)

\* A session of the caller's own, in the options the caller passes.
CallerSession == 9

\* {...options, session}
Merge(v, session) ==
    CASE v.k = "opts"  -> Opts(session, v.key)
      [] v.k = "array" -> Opts(session, Len(v.items) > 0)
      [] v.k = "param" -> Opts(session, TRUE)
      [] OTHER         -> Opts(session, FALSE)

\* wrapCallback(callback) under a context: another function.
WrapNot(v) == v

Wrap(v) == [v EXCEPT !.wrapped = TRUE]

GetOptionsAndCallbackArgs(c, args) ==
    IF c = NoCtx THEN args
    ELSE LET session == InjectedSession(c)
         IN  IF Len(args) = 0 THEN <<Opts(session, FALSE)>>
             ELSE IF Len(args) = 1
             THEN IF args[1].k = "fn"
                  THEN <<Opts(session, FALSE), Wrap(args[1])>>
                  ELSE <<Merge(args[1], session)>>
             ELSE <<Merge(args[1], session),
                    IF args[2].k # "undef" THEN Wrap(args[2]) ELSE Undef>>

\* The i-th of args, undefined past its end (array destructuring).
At(args, i) == IF i <= Len(args) THEN args[i] ELSE Undef

Rest(args, n) == IF Len(args) > n THEN SubSeq(args, n + 1, Len(args)) ELSE <<>>

\* `if (args.length > 2 | 3 | 4 | 5) throw`: the most arguments the patched
\* method of the group with k business parameters accepts.
MaxArgsLoose(k) == k + 3

MaxArgs(k) == k + 2

\* The arguments the original method receives from the patched method of
\* the group with k business parameters (METHODS_WITH_ZERO_PARAMS ..
\* METHODS_WITH_THREE_PARAMS); fatal: the patched method throws instead.
Patched(k, c, args) ==
    IF Len(args) > MaxArgs(k) THEN [fatal |-> TRUE, received |-> <<>>]
    ELSE [fatal |-> FALSE, received |->
            CASE k = 0 -> GetOptionsAndCallbackArgs(c, args)
              [] k = 1 ->
                    IF Len(args) = 0
                    THEN <<Undef, Arr(GetOptionsAndCallbackArgs(c, <<Arr(<<>>)>>))>>
                    ELSE <<args[1]>> \o GetOptionsAndCallbackArgs(c, Rest(args, 1))
              [] k = 2 ->
                    IF Len(args) = 0
                    THEN <<Undef, Arr(GetOptionsAndCallbackArgs(c, <<Arr(<<>>)>>))>>
                    ELSE IF Len(args) = 1
                    THEN <<args[1], Undef, Arr(GetOptionsAndCallbackArgs(c, <<Arr(<<>>)>>))>>
                    ELSE <<args[1], args[2]>> \o GetOptionsAndCallbackArgs(c, Rest(args, 2))
              [] OTHER ->
                    <<At(args, 1), At(args, 2), At(args, 3)>>
                        \o GetOptionsAndCallbackArgs(c, Rest(args, 3))]

\* The call shapes of a method with k business parameters: the parameters,
\* then nothing, options, a bare callback, or options and callback; fewer
\* parameters than k; one argument more than the method takes.
CallerOptions == {Opts(0, TRUE), Opts(CallerSession, TRUE)}

Tails ==
    {<<>>, <<Fn>>, <<Undef, Fn>>}
        \cup {<<o>> : o \in CallerOptions}
        \cup {<<o, Fn>> : o \in CallerOptions}
        \cup {<<o, Undef>> : o \in CallerOptions}

Params(j) == [i \in 1..j |-> Param]

Shapes(k) ==
    {Params(k) \o t : t \in Tails}
        \cup {Params(j) : j \in 0..k}
        \cup {Params(k) \o <<Opts(0, TRUE), Fn, Undef>>}

NoCall == [called |-> FALSE, k |-> 0, args |-> <<>>, fatal |-> FALSE, received |-> <<>>,
           ctx |-> NoCtx, counts |-> <<0, 0>>, f |-> 0, by |-> "nobody", live |-> TRUE,
           cb |-> 0, nested |-> "none", inTxn |-> FALSE]

FatalErr == Err("Error", "Fatal error: expected maximum of arguments")

\* ---------------------------------------------------------- runInTransaction
NestingCheckOff(f) == FALSE

NestingCheck(f) == Get(f) # NoCtx

\* The same test made by code that runs under context c (a bound callback).
NestingCheckEnvOff(c) == FALSE

NestingCheckEnv(c) == c # NoCtx

\* isInTransaction() evaluated under ambient context c, and by fiber f.
IsInTransactionBound(c) == c # NoCtx

IsInTransactionEnv(c) ==
    IF c = NoCtx THEN FALSE ELSE InTransaction(sessions[ctxs[c].session])

IsInTransaction(f) == IsInTransactionEnv(Get(f))

NewContext(sid, o) ==
    [session |-> sid,
     callbackCount |-> 0,
     catchCallbackErrors |-> o.waitForCallbacks /\ o.catchCallbackErrors,
     resolveCalls |-> 0,
     callbackErrors |-> <<>>]

Options == [retry : BOOLEAN, waitForCallbacks : BOOLEAN, catchCallbackErrors : BOOLEAN]

\* `let defaultOptions = {}`: every option absent, hence falsy.
EmptyOptions == [retry |-> FALSE, waitForCallbacks |-> FALSE, catchCallbackErrors |-> FALSE]

\* A call of runInTransaction(fn) that passes no options argument.
NoOptions == [undefined |-> TRUE]

NoFrame == [retry |-> FALSE, wait |-> FALSE, saved |-> NoCtx, err |-> NoErr,
            uowErr |-> NoErr, uowRet |-> 0, result |-> 0, attempt |-> 0,
            nops |-> 0, nested |-> "no", uIns |-> {}, uDel |-> {}, read |-> 0,
            abortFailed |-> FALSE]

NoOutcome == [kind |-> "none", value |-> 0, err |-> NoErr]

Returned(v) == [kind |-> "returned", value |-> v, err |-> NoErr]

Threw(e) == [kind |-> "threw", value |-> 0, err |-> e]

\* The value the unit of work of fiber f returns on its a-th run.
RetVal(f, a) == 10 * f + a

TypeOK ==
    /\ callers \subseteq Fibers
    /\ \A f \in Fibers : dynamics[f] \in {NoCtx} \cup Fibers
    /\ \A f \in Fibers : opened[f] \in 0..2

Init ==
    /\ callers \in {{1}, {1, 2}}
    /\ dynamics = [f \in Fibers |-> NoCtx]
    /\ pc = [f \in Fibers |-> "idle"]
    /\ frame = [f \in Fibers |-> NoFrame]
    /\ ctxs = [f \in Fibers |-> NewContext(0, [retry |-> FALSE, waitForCallbacks |-> FALSE, catchCallbackErrors |-> FALSE])]
    /\ sessions = [f \in Fibers |-> FreshSession]
    /\ store = {Seed(f) : f \in Fibers} \cup {InvoiceDoc(InitialTotal)}
    /\ cbs = [f \in Fibers |-> <<>>]
    /\ outcome = [f \in Fibers |-> NoOutcome]
    /\ opsLog = {}
    /\ opened = [f \in Fibers |-> 0]
    /\ limit \in {MaxOps, MaxOpsConc, InvoiceInserts}
    /\ delivered = NoCall
    /\ defaultOptions = EmptyOptions
    /\ lastPassed = NoOptions

\* ------------------------------------------------------------ executor
\* runWithoutRetry / runWithRetry, the finally block after fn(session):
\* wait for the callbacks only when a promise exists and some are pending.
MustDrainAlways(f, c) == frame[f].wait

MustDrainPending(f, c) == ctxs[c].callbackCount > 0

MustDrain(f, c) == frame[f].wait /\ ctxs[c].callbackCount > 0

\* After Promise.await(waitForCallbacksPromise): callbackErrors[0] decides.
DrainErrorNever(errors) == NoErr

DrainError(errors) ==
    IF Len(errors) > 0 /\ Truthy(errors[1]) THEN CreateCallbackError(errors) ELSE NoErr

\* try { fn; commit } catch { abort; throw }: where control goes once the
\* body (and its finally block) ended with exception e in flight.
AfterBodyCommits(e) == "commit"

AfterBody(e) == IF e = NoErr THEN "commit" ELSE "abort"

\* The promise made when options.waitForCallbacks is set; resolveCallbacks
\* is its resolver.
PromiseResolved(f, c) == frame[f].wait /\ ctxs[c].resolveCalls > 0

\* Meteor.EnvironmentVariable.withValue's finally, endSession in the
\* finally of runWith(out)Retry, and the result handed to the caller.
Leave(f, sess, out) ==
    /\ sessions' = [sessions EXCEPT ![f] = sess]
    /\ dynamics' = WithValueRestore(dynamics, f, frame[f].saved)
    /\ outcome' = [outcome EXCEPT ![f] = out]
    /\ pc' = [pc EXCEPT ![f] = "done"]

\* session.withTransaction starts the next run of the body.
NewAttempt(f) ==
    /\ sessions' = [sessions EXCEPT ![f] = StartTransaction(@)]
    /\ frame' = [frame EXCEPT ![f].attempt = @ + 1, ![f].err = NoErr,
                              ![f].uowErr = NoErr, ![f].uowRet = 0,
                              ![f].nested = "no",
                              ![f].uIns = {}, ![f].uDel = {}, ![f].read = 0]
    /\ pc' = [pc EXCEPT ![f] = "body"]
    /\ UNCHANGED <<dynamics, outcome>>

MayRetryNever(f, e) == FALSE

MayRetry(f, e) ==
    frame[f].retry /\ e.kind = "TransientTransactionError" /\ frame[f].attempt < MaxAttempts

\* runInTransaction(fn, options) called by fiber f from outside any unit of
\* work; startOk: whether session.startTransaction succeeds.
RunInTransaction(f, o, startOk) ==
    /\ f \in callers
    /\ pc[f] = "idle"
    /\ IF NestingCheck(f)
       THEN /\ outcome' = [outcome EXCEPT ![f] = Threw(NestedErr)]
            /\ pc' = [pc EXCEPT ![f] = "done"]
            /\ UNCHANGED <<dynamics, frame, ctxs, sessions, opened>>
       ELSE /\ opened' = [opened EXCEPT ![f] = @ + 1]
            /\ ctxs' = [ctxs EXCEPT ![f] = NewContext(f, o)]
            /\ frame' = [frame EXCEPT ![f] =
                           [NoFrame EXCEPT !.retry = o.retry,
                                           !.wait = o.waitForCallbacks,
                                           !.saved = Get(f),
                                           !.attempt = IF startOk THEN 1 ELSE 0]]
            /\ IF startOk
               THEN /\ sessions' = [sessions EXCEPT ![f] = StartTransaction(FreshSession)]
                    /\ dynamics' = WithValueBind(dynamics, f, f)
                    /\ pc' = [pc EXCEPT ![f] = "body"]
                    /\ UNCHANGED outcome
               ELSE \* startTransaction throws: runWithoutRetry calls it
                    \* outside its try, withTransaction inside runWithRetry's
                    /\ sessions' = [sessions EXCEPT ![f] =
                                      IF o.retry THEN EndSession(FreshSession)
                                      ELSE FreshSession]
                    /\ dynamics' = WithValueRestore(WithValueBind(dynamics, f, f), f, Get(f))
                    /\ outcome' = [outcome EXCEPT ![f] = Threw(StartErr)]
                    /\ pc' = [pc EXCEPT ![f] = "done"]
    /\ UNCHANGED <<callers, limit, defaultOptions, lastPassed, delivered, store, cbs, opsLog>>

\* fn(session) ended (returned v, or raised e); the finally block decides
\* whether to wait for the callbacks.
\* `result = fn(session)`: assigned on each run of the body that returns.
ResultOfFirstRun(prev, v, e) == IF e = NoErr /\ prev = 0 THEN v ELSE prev

ResultAssigned(prev, v, e) == IF e = NoErr THEN v ELSE prev

FinishBody(f, v, e) ==
    /\ frame' = [frame EXCEPT ![f].err = e, ![f].uowErr = e, ![f].uowRet = v,
                              ![f].result = ResultAssigned(@, v, e)]
    /\ pc' = [pc EXCEPT ![f] = IF MustDrain(f, f) THEN "drain" ELSE AfterBody(e)]
    /\ UNCHANGED <<callers, limit, defaultOptions, lastPassed, delivered, dynamics, ctxs, sessions, store, cbs, outcome, opsLog, opened>>

UowReturn(f) ==
    /\ f \in callers
    /\ pc[f] = "body"
    /\ FinishBody(f, RetVal(f, frame[f].attempt), NoErr)

UowRaise(f, e) ==
    /\ f \in callers
    /\ pc[f] = "body"
    /\ FinishBody(f, 0, e)

\* A synchronous intercepted write made by the unit of work.
UowWrite(f, op) ==
    /\ f \in callers
    /\ pc[f] = "body"
    /\ frame[f].nops < limit
    /\ LET sid == InjectedSession(Get(f))
           w   == [op |-> op, f |-> f, n |-> frame[f].nops + 1, a |-> frame[f].attempt]
           u   == Overlay([ins |-> frame[f].uIns, del |-> frame[f].uDel], store, w)
       IN  /\ sessions' = SessionsAfterWrite(sid, w)
           /\ store' = StoreAfterWrite(sid, w)
           /\ opsLog' = opsLog \cup {<<f, sid>>}
           /\ frame' = [frame EXCEPT ![f].nops = @ + 1, ![f].uIns = u.ins, ![f].uDel = u.del]
    /\ UNCHANGED <<callers, limit, defaultOptions, lastPassed, delivered, dynamics, pc, ctxs, cbs, outcome, opened>>

\* runInTransaction called from inside the unit of work; caught: whether the
\* unit of work catches what it throws.
UowNested(f, caught) ==
    /\ f \in callers
    /\ pc[f] = "body"
    /\ frame[f].nested = "no"
    /\ IF NestingCheck(f)
       THEN IF caught
            THEN /\ frame' = [frame EXCEPT ![f].nested = "caught"]
                 /\ UNCHANGED <<pc, ctxs, sessions, opened, dynamics>>
            ELSE /\ frame' = [frame EXCEPT ![f].nested = "thrown", ![f].err = NestedErr,
                                           ![f].uowErr = NestedErr, ![f].uowRet = 0]
                 /\ pc' = [pc EXCEPT ![f] = IF MustDrain(f, f) THEN "drain" ELSE AfterBody(NestedErr)]
                 /\ UNCHANGED <<ctxs, sessions, opened, dynamics>>
       ELSE \* the inner call goes on: a second session and context
            /\ opened' = [opened EXCEPT ![f] = @ + 1]
            /\ ctxs' = [ctxs EXCEPT ![f] = NewContext(f, [retry |-> FALSE, waitForCallbacks |-> FALSE, catchCallbackErrors |-> FALSE])]
            /\ sessions' = [sessions EXCEPT ![f] = StartTransaction(FreshSession)]
            /\ frame' = [frame EXCEPT ![f].nested = "ran"]
            /\ UNCHANGED <<pc, dynamics>>
    /\ UNCHANGED <<callers, limit, defaultOptions, lastPassed, delivered, store, cbs, outcome, opsLog>>

\* Promise.await(waitForCallbacksPromise) returns.
DrainDone(f) ==
    /\ f \in callers
    /\ pc[f] = "drain"
    /\ PromiseResolved(f, f)
    /\ LET ce == DrainError(ctxs[f].callbackErrors)
           e  == IF ce # NoErr THEN ce ELSE frame[f].err
       IN  /\ frame' = [frame EXCEPT ![f].err = e]
           /\ pc' = [pc EXCEPT ![f] = AfterBody(e)]
    /\ UNCHANGED <<callers, limit, defaultOptions, lastPassed, delivered, dynamics, ctxs, sessions, store, cbs, outcome, opsLog, opened>>

\* commitTransaction ends with r: "ok", or a failure.
Commit(f, r) ==
    /\ f \in callers
    /\ pc[f] = "commit"
    /\ LET e == IF r = "transient" THEN TransientErr ELSE CommitErr
       IN  CASE r = "ok" ->
                  /\ store' = CommittedStore(store, sessions[f])
                  /\ Leave(f, EndSession(CommitTransaction(sessions[f])), Returned(frame[f].result))
                  /\ UNCHANGED frame
             [] r # "ok" /\ ~frame[f].retry ->
                  /\ frame' = [frame EXCEPT ![f].err = e]
                  /\ pc' = [pc EXCEPT ![f] = "abort"]
                  /\ UNCHANGED <<store, sessions, dynamics, outcome>>
             [] r # "ok" /\ frame[f].retry /\ MayRetry(f, e) ->
                  /\ NewAttempt(f)
                  /\ UNCHANGED store
             [] OTHER ->
                  /\ Leave(f, EndSession(sessions[f]), Threw(e))
                  /\ UNCHANGED <<store, frame>>
    /\ UNCHANGED <<callers, limit, defaultOptions, lastPassed, delivered, ctxs, cbs, opsLog, opened>>

\* catch (e) { Promise.await(session.abortTransaction()); throw e; }: the
\* error that leaves the catch block when abortTransaction itself throws.
AfterAbortFailureKeeps(e, abortErr) == e

AfterAbortFailure(e, abortErr) == abortErr

\* abortTransaction ends; ok: whether it succeeded.
Abort(f, ok) ==
    /\ f \in callers
    /\ pc[f] = "abort"
    /\ IF ~ok
       THEN /\ Leave(f, EndSession(sessions[f]), Threw(AfterAbortFailure(frame[f].err, AbortErr)))
            /\ frame' = [frame EXCEPT ![f].abortFailed = TRUE]
       ELSE IF MayRetry(f, frame[f].err)
       THEN NewAttempt(f)
       ELSE /\ Leave(f, EndSession(AbortTransaction(sessions[f])), Threw(frame[f].err))
            /\ UNCHANGED frame
    /\ UNCHANGED <<callers, limit, defaultOptions, lastPassed, delivered, ctxs, store, cbs, opsLog, opened>>

\* ------------------------------------------------------ completion tracker
\* wrapCallback at registration: the callback is tracked (callbackCount is
\* incremented) only under a context.
Tracked(c) == c # NoCtx

\* wrapCallback under a context: `context.callbackCount += 1` before the
\* wrapper is returned.
CtxsAfterWrapSkips(c) == ctxs

CtxsAfterWrap(c) ==
    IF Tracked(c) THEN [ctxs EXCEPT ![c].callbackCount = @ + 1] ELSE ctxs

\* The patched Meteor.bindEnvironment: onException stores the error in the
\* context when catchCallbackErrors is set.
CapturesAlways(c, e) == e # NoErr /\ c # NoCtx

Captures(c, e) == e # NoErr /\ c # NoCtx /\ ctxs[c].catchCallbackErrors

\* The function wrapCallback returns calls the callback and then decrements:
\* an exception leaving the callback skips the decrement.  A callback that
\* Meteor itself bound (bound = TRUE: Collection.insert(doc, cb) goes
\* through Meteor.wrapAsync) has its exception handled inside.
Decrements(cb, e) == cb.tracked /\ cb.env # NoCtx /\ (e = NoErr \/ cb.bound)

\* `if (ctx.callbackCount === 0) ctx.resolveCallbacks()`, n being the count
\* after the decrement.
CallsResolveAlways(n) == TRUE

CallsResolve(n) == n = 0

CtxsAfterCallback(cb, e) ==
    LET c  == cb.env
        c1 == IF Captures(c, e)
              THEN [ctxs EXCEPT ![c].callbackErrors = Append(@, e)]
              ELSE ctxs
    IN  IF Decrements(cb, e)
        THEN [c1 EXCEPT ![c].callbackCount = @ - 1,
                        ![c].resolveCalls = IF CallsResolve(c1[c].callbackCount - 1) THEN @ + 1 ELSE @]
        ELSE c1

\* An intercepted asynchronous insert with a callback, made by the unit of
\* work: insert(doc, cb).  bound: the callback went through Meteor.wrapAsync.
UowRegister(f, bound) ==
    /\ f \in callers
    /\ pc[f] = "body"
    /\ frame[f].nops < limit
    /\ LET c   == Get(f)
           sid == InjectedSession(c)
           w   == [op |-> "insert", f |-> f, n |-> frame[f].nops + 1, a |-> frame[f].attempt]
       IN  /\ ctxs' = CtxsAfterWrap(c)
           /\ cbs' = [cbs EXCEPT ![f] = Append(@, [env |-> c, st |-> "pending",
                                                   bound |-> bound, tracked |-> Tracked(c),
                                                   a |-> frame[f].attempt])]
           /\ sessions' = SessionsAfterWrite(sid, w)
           /\ store' = StoreAfterWrite(sid, w)
           /\ opsLog' = opsLog \cup {<<f, sid>>}
           /\ frame' = [frame EXCEPT ![f].nops = @ + 1, ![f].uIns = @ \cup {<<f, w.n, w.a>>}]
    /\ UNCHANGED <<callers, limit, defaultOptions, lastPassed, delivered, dynamics, pc, outcome, opened>>

\* A patched method of the group with k business parameters, called with
\* args by fiber f: from its unit of work, or outside any transaction
\* (before or after its runInTransaction call).  The
\* operation itself is a read; the driver is handed the session found in the
\* options position.
CallPatched(f, k, args) ==
    /\ f \in callers
    /\ pc[f] \in {"idle", "body", "done"}
    /\ frame[f].nops < limit
    /\ LET c   == Get(f)
           p   == Patched(k, c, args)
           w   == {i \in DOMAIN p.received : p.received[i].wrapped}
           o   == At(p.received, k + 1)
           sid == IF o.k = "opts" THEN o.session ELSE 0
           c1  == IF w # {} THEN CtxsAfterWrap(c) ELSE ctxs
       IN  /\ ctxs' = c1
           /\ cbs' = IF w # {}
                     THEN [cbs EXCEPT ![f] = Append(@, [env |-> c, st |-> "pending",
                                                       bound |-> FALSE, tracked |-> Tracked(c),
                                                       a |-> frame[f].attempt])]
                     ELSE cbs
           /\ opsLog' = IF p.fatal THEN opsLog ELSE opsLog \cup {<<f, sid>>}
           /\ delivered' = [called |-> TRUE, k |-> k, args |-> args, fatal |-> p.fatal,
                            received |-> p.received, ctx |-> c,
                            counts |-> IF c = NoCtx THEN <<0, 0>>
                                       ELSE <<ctxs[c].callbackCount, c1[c].callbackCount>>,
                            f |-> f, by |-> "fiber", live |-> Live(sid)]
           /\ IF p.fatal /\ pc[f] = "body"
              THEN /\ frame' = [frame EXCEPT ![f].nops = @ + 1, ![f].err = FatalErr,
                                             ![f].uowErr = FatalErr, ![f].uowRet = 0]
                   /\ pc' = [pc EXCEPT ![f] = IF MustDrain(f, f) THEN "drain" ELSE AfterBody(FatalErr)]
              ELSE /\ frame' = [frame EXCEPT ![f].nops = @ + 1]
                   /\ UNCHANGED pc
    /\ UNCHANGED <<callers, limit, defaultOptions, lastPassed, dynamics, sessions, store, outcome, opened>>

\* The driver invokes wrapped callback i of fiber f, and the callback calls
\* a patched method (without a callback of its own); the driver refuses an
\* operation that carries an ended session, and the callback ends with that
\* error.
CbCall(f, i, k, args) ==
    /\ i \in DOMAIN cbs[f]
    /\ cbs[f][i].st = "pending"
    /\ LET cb  == cbs[f][i]
           p   == Patched(k, cb.env, args)
           o   == At(p.received, k + 1)
           sid == IF o.k = "opts" THEN o.session ELSE 0
           thrown == IF p.fatal THEN FatalErr
                     ELSE IF ~Live(sid) THEN ExpiredErr ELSE NoErr
       IN  /\ opsLog' = IF p.fatal THEN opsLog ELSE opsLog \cup {<<f, sid>>}
           /\ delivered' = [called |-> TRUE, k |-> k, args |-> args, fatal |-> p.fatal,
                            received |-> p.received, ctx |-> cb.env,
                            counts |-> <<0, 0>>,
                            f |-> f, by |-> "callback", live |-> Live(sid)]
           /\ ctxs' = CtxsAfterCallback(cb, thrown)
           /\ cbs' = [cbs EXCEPT ![f][i].st = "done"]
    /\ UNCHANGED <<callers, limit, defaultOptions, lastPassed, dynamics, pc, frame, sessions, store, outcome, opened>>

\* The driver invokes the wrapped callback: it runs in a fiber of its own
\* with the environment captured at registration.  writes: the callback
\* makes a synchronous intercepted insert (refused on an ended session: the
\* callback then ends with that error); e: what the callback throws.
CbRun(f, i, writes, e) ==
    /\ i \in DOMAIN cbs[f]
    /\ cbs[f][i].st = "pending"
    /\ LET cb  == cbs[f][i]
           sid == InjectedSession(cb.env)
           w   == [op |-> "insert", f |-> f, n |-> MaxOps + i, a |-> frame[f].attempt]
           thrown == IF writes /\ WriteRefused(sid) THEN ExpiredErr ELSE e
       IN  /\ opsLog' = IF writes THEN opsLog \cup {<<f, sid>>} ELSE opsLog
           /\ sessions' = IF writes THEN SessionsAfterWrite(sid, w) ELSE sessions
           /\ store' = IF writes THEN StoreAfterWrite(sid, w) ELSE store
           /\ ctxs' = CtxsAfterCallback(cb, thrown)
           /\ cbs' = [cbs EXCEPT ![f][i].st = "done"]
    /\ UNCHANGED <<callers, limit, defaultOptions, lastPassed, delivered, dynamics, pc, frame, outcome, opened>>

\* ------------------------------------------------------------------ spec
Next ==
    \/ \E f \in Fibers, o \in Options, startOk \in BOOLEAN : RunInTransaction(f, o, startOk)
    \/ \E f \in Fibers, op \in {"insert", "update", "remove"} : UowWrite(f, op)
    \/ \E f \in Fibers, b \in BOOLEAN : UowRegister(f, b)
    \/ \E f \in Fibers, caught \in BOOLEAN : UowNested(f, caught)
    \/ \E f \in Fibers : UowReturn(f)
    \/ \E f \in Fibers, e \in {UserErr, TransientErr} : UowRaise(f, e)
    \/ \E f \in Fibers : DrainDone(f)
    \/ \E f \in Fibers, r \in {"ok", "transient", "fatal"} : Commit(f, r)
    \/ \E f \in Fibers, ok \in BOOLEAN : Abort(f, ok)
    \/ \E f \in Fibers, i \in 1..limit, writes \in BOOLEAN, e \in {NoErr} \cup CbThrowables :
          CbRun(f, i, writes, e)

\* One fiber: every option, write, callback and failure.
InitOne == Init /\ callers = {1} /\ limit = MaxOps

Spec == InitOne /\ [][Next]_vars

\* Two fibers at once, without retry; the driver does not fail and no call
\* is nested.  catchCallbackErrors is given together with waitForCallbacks.
ConcOptions == {o \in Options : ~o.retry /\ o.catchCallbackErrors = o.waitForCallbacks}

InitConc == Init /\ callers = {1, 2} /\ limit = MaxOpsConc

NextConc ==
    \/ \E f \in Fibers, o \in ConcOptions : RunInTransaction(f, o, TRUE)
    \/ \E f \in Fibers : UowWrite(f, "insert")
    \/ \E f \in Fibers, b \in BOOLEAN : UowRegister(f, b)
    \/ \E f \in Fibers : UowReturn(f)
    \/ \E f \in Fibers : UowRaise(f, UserErr)
    \/ \E f \in Fibers : DrainDone(f)
    \/ \E f \in Fibers : Commit(f, "ok")
    \/ \E f \in Fibers : Abort(f, TRUE)
    \/ \E f \in Fibers, i \in 1..limit, writes \in BOOLEAN, e \in {NoErr, Err("Error", "fail")} :
          CbRun(f, i, writes, e)

SpecConc == InitConc /\ [][NextConc]_vars

\* The insertInvoice method of the tests, called by two clients at once with
\* the default options: the invoice, then two items, failing (if at all)
\* after the first insert, after an item insert or at the end.
InitInvoice == Init /\ callers = {1, 2} /\ limit = InvoiceInserts

DefaultOptions == [retry |-> FALSE, waitForCallbacks |-> FALSE, catchCallbackErrors |-> FALSE]

NextInvoice ==
    \/ \E f \in Fibers : RunInTransaction(f, DefaultOptions, TRUE)
    \/ \E f \in Fibers : UowWrite(f, "insert")
    \/ \E f \in Fibers : frame[f].nops = InvoiceInserts /\ UowReturn(f)
    \/ \E f \in Fibers : frame[f].nops >= 1 /\ UowRaise(f, UserErr)
    \/ \E f \in Fibers, r \in {"ok", "fatal"} : Commit(f, r)
    \/ \E f \in Fibers, ok \in BOOLEAN : Abort(f, ok)

SpecInvoice == InitInvoice /\ [][NextInvoice]_vars

\* updateInvoiceInTransaction of the tests, called by two clients at once
\* with retry: the unit of work reads the invoice's total (findOne, under the
\* session: the transaction's snapshot), sleeps, and sets the total to what
\* it read plus Increment.
UowReadTotal(f) ==
    /\ f \in callers
    /\ pc[f] = "body"
    /\ frame[f].read = 0
    /\ LET sid == InjectedSession(Get(f))
       IN  /\ opsLog' = opsLog \cup {<<f, sid>>}
           /\ \E t \in Totals :
                 /\ InvoiceDoc(t) \in store
                 /\ frame' = [frame EXCEPT ![f].read = t]
    /\ UNCHANGED <<callers, limit, defaultOptions, lastPassed, delivered, dynamics, pc, ctxs, sessions, store, cbs, outcome, opened>>

\* The server refuses a write in a transaction (WriteConflict, labelled
\* TransientTransactionError) when another open transaction has written the
\* document or the document changed after the transaction's snapshot.
WriteConflict(f) ==
    \/ \E g \in Fibers \ {f} :
          InTransaction(sessions[g]) /\ \E t \in Totals : InvoiceDoc(t) \in sessions[g].del
    \/ InvoiceDoc(frame[f].read) \notin store

UowUpdateTotal(f) ==
    /\ f \in callers
    /\ pc[f] = "body"
    /\ frame[f].read # 0
    /\ frame[f].uIns = {}
    /\ LET sid == InjectedSession(Get(f))
           new == InvoiceDoc(frame[f].read + Increment)
           cur == {InvoiceDoc(t) : t \in Totals} \cap store
       IN  /\ opsLog' = opsLog \cup {<<f, sid>>}
           /\ IF WriteStaged(sid) /\ WriteConflict(f)
              THEN /\ FinishBody(f, 0, TransientErr)
              ELSE /\ frame' = [frame EXCEPT ![f].uIns = {new}, ![f].uDel = cur]
                   /\ IF WriteStaged(sid)
                      THEN /\ sessions' = [sessions EXCEPT ![sid].ins = @ \cup {new},
                                                           ![sid].del = @ \cup cur]
                           /\ UNCHANGED store
                      ELSE /\ store' = (store \ cur) \cup {new}
                           /\ UNCHANGED sessions
                   /\ UNCHANGED <<callers, limit, defaultOptions, lastPassed, delivered, dynamics, pc, ctxs, cbs, outcome, opened>>

RetryOptions == [retry |-> TRUE, waitForCallbacks |-> FALSE, catchCallbackErrors |-> FALSE]

InitTotal == Init /\ callers = {1, 2} /\ limit = MaxOpsConc

StepTotal(f) ==
    \/ RunInTransaction(f, RetryOptions, TRUE)
    \/ UowReadTotal(f)
    \/ UowUpdateTotal(f)
    \/ frame[f].uIns # {} /\ UowReturn(f)
    \/ \E r \in {"ok", "transient"} : Commit(f, r)
    \/ Abort(f, TRUE)

NextTotal == \E f \in Fibers : StepTotal(f)

\* Each client's fiber keeps running (its sleeps end, the driver answers).
SpecTotal == InitTotal /\ [][NextTotal]_vars /\ \A f \in Fibers : WF_vars(StepTotal(f))

\* One fiber calling the patched methods, in every call shape, inside a
\* unit of work and outside any transaction.
ArgsOptions == {o \in Options : ~o.retry /\ o.catchCallbackErrors = o.waitForCallbacks}

InitArgs == Init /\ callers = {1} /\ limit = MaxOps

NextArgs ==
    \/ \E f \in Fibers, o \in ArgsOptions : RunInTransaction(f, o, TRUE)
    \/ \E f \in Fibers, k \in 0..3 : \E args \in Shapes(k) : CallPatched(f, k, args)
    \/ \E f \in Fibers : UowReturn(f)
    \/ \E f \in Fibers : DrainDone(f)
    \/ \E f \in Fibers : Commit(f, "ok")
    \/ \E f \in Fibers : Abort(f, TRUE)
    \/ \E f \in Fibers, i \in 1..limit : CbRun(f, i, FALSE, NoErr)
    \/ \E f \in Fibers, i \in 1..limit, k \in 0..3 :
          \E args \in {Params(k), Params(k) \o <<Opts(0, TRUE)>>} : CbCall(f, i, k, args)

SpecArgs == InitArgs /\ [][NextArgs]_vars

\* ------------------------------------------------------------------ find
\* RawCollection.prototype.find = function (query, options): what the
\* original find receives; arguments past the second are not looked at.
PatchedFindAsOneParam(c, args) == Patched(1, c, args)

PatchedFind(c, args) ==
    [fatal |-> FALSE, received |->
        IF c # NoCtx
        THEN <<At(args, 1), Merge(At(args, 2), InjectedSession(c))>>
        ELSE <<At(args, 1), At(args, 2)>>]

\* The ways find is called: no argument, a query, a query and options
\* (undefined, the caller's own, with or without a session), and a call that
\* also passes a function.
FindShapes ==
    {<<>>, <<Param>>, <<Param, Undef>>}
        \cup {<<Param, o>> : o \in CallerOptions}
        \cup {<<Param, o, Fn>> : o \in CallerOptions}

\* Fiber f calls rawCollection.find(...args), inside its unit of work or
\* outside any transaction.
CallFind(f, args) ==
    /\ f \in callers
    /\ pc[f] \in {"idle", "body", "done"}
    /\ frame[f].nops < limit
    /\ LET c   == Get(f)
           p   == PatchedFind(c, args)
           w   == {i \in DOMAIN p.received : p.received[i].wrapped}
           o   == At(p.received, 2)
           sid == IF o.k = "opts" THEN o.session ELSE 0
           c1  == IF w # {} THEN CtxsAfterWrap(c) ELSE ctxs
       IN  /\ ctxs' = c1
           /\ cbs' = IF w # {}
                     THEN [cbs EXCEPT ![f] = Append(@, [env |-> c, st |-> "pending",
                                                       bound |-> FALSE, tracked |-> Tracked(c),
                                                       a |-> frame[f].attempt])]
                     ELSE cbs
           /\ opsLog' = IF p.fatal THEN opsLog ELSE opsLog \cup {<<f, sid>>}
           /\ delivered' = [called |-> TRUE, k |-> 1, args |-> args, fatal |-> p.fatal,
                            received |-> p.received, ctx |-> c,
                            counts |-> IF c = NoCtx THEN <<0, 0>>
                                       ELSE <<ctxs[c].callbackCount, c1[c].callbackCount>>,
                            f |-> f, by |-> "fiber", live |-> Live(sid)]
           /\ frame' = [frame EXCEPT ![f].nops = @ + 1]
    /\ UNCHANGED <<callers, limit, defaultOptions, lastPassed, dynamics, pc, sessions, store, outcome, opened>>

\* One fiber calling find in a unit of work that also registers callbacks,
\* and outside any transaction.
InitFind == Init /\ callers = {1} /\ limit = MaxOps

NextFind ==
    \/ \E f \in Fibers, o \in ArgsOptions : RunInTransaction(f, o, TRUE)
    \/ \E f \in Fibers : \E args \in FindShapes : CallFind(f, args)
    \/ \E f \in Fibers : UowRegister(f, FALSE)
    \/ \E f \in Fibers : UowReturn(f)
    \/ \E f \in Fibers : DrainDone(f)
    \/ \E f \in Fibers : Commit(f, "ok")
    \/ \E f \in Fibers, i \in 1..limit : CbRun(f, i, FALSE, NoErr)

SpecFind == InitFind /\ [][NextFind]_vars

\* --------------------------------------------------------- thrown values
\* What the callbacks of the error tests throw: an Error, a string, an
\* object that has a message but is not an Error, and the empty string (a
\* falsy value).
Thrown == CbThrowables \cup {Err("object", "not an Error"), Err("string", "")}

ErrorsOptions == [retry |-> FALSE, waitForCallbacks |-> TRUE, catchCallbackErrors |-> TRUE]

\* One fiber whose unit of work registers callbacks through Meteor's
\* collection methods, waits for them and collects what they throw.
InitErrors == Init /\ callers = {1} /\ limit = MaxOps

NextErrors ==
    \/ \E f \in Fibers : RunInTransaction(f, ErrorsOptions, TRUE)
    \/ \E f \in Fibers : UowRegister(f, TRUE)
    \/ \E f \in Fibers : UowReturn(f)
    \/ \E f \in Fibers : UowRaise(f, UserErr)
    \/ \E f \in Fibers : DrainDone(f)
    \/ \E f \in Fibers : Commit(f, "ok")
    \/ \E f \in Fibers, ok \in BOOLEAN : Abort(f, ok)
    \/ \E f \in Fibers, i \in 1..limit, e \in {NoErr} \cup Thrown : CbRun(f, i, FALSE, e)

SpecErrors == InitErrors /\ [][NextErrors]_vars

\* ------------------------------------------------------- late callbacks
\* The driver invokes wrapped callback i of fiber f; the callback calls
\* isInTransaction() and then runInTransaction(...), under the context it
\* captured.  nested: the inner call was rejected, or ran (with a session of
\* its own); live: whether the captured context's session was still open.
CbNested(f, i) ==
    /\ i \in DOMAIN cbs[f]
    /\ cbs[f][i].st = "pending"
    /\ LET cb       == cbs[f][i]
           c        == cb.env
           rejected == NestingCheckEnv(c)
           thrown   == IF rejected THEN NestedErr ELSE NoErr
       IN  /\ opened' = IF rejected THEN opened ELSE [opened EXCEPT ![f] = @ + 1]
           /\ delivered' = [NoCall EXCEPT !.called = TRUE, !.ctx = c, !.f = f,
                                          !.by = "callback", !.cb = i,
                                          !.live = Live(InjectedSession(c)),
                                          !.nested = IF rejected THEN "rejected" ELSE "ran",
                                          !.inTxn = IsInTransactionEnv(c)]
           /\ ctxs' = CtxsAfterCallback(cb, thrown)
           /\ cbs' = [cbs EXCEPT ![f][i].st = "done"]
    /\ UNCHANGED <<callers, limit, defaultOptions, lastPassed, dynamics, pc, frame, sessions, store, outcome, opsLog>>

\* One fiber whose callbacks call runInTransaction, before or after the
\* transaction that registered them has ended.
InitLate == Init /\ callers = {1} /\ limit = MaxOps

NextLate ==
    \/ \E f \in Fibers, o \in Options : RunInTransaction(f, o, TRUE)
    \/ \E f \in Fibers, b \in BOOLEAN : UowRegister(f, b)
    \/ \E f \in Fibers : UowReturn(f)
    \/ \E f \in Fibers : UowRaise(f, UserErr)
    \/ \E f \in Fibers : DrainDone(f)
    \/ \E f \in Fibers : Commit(f, "ok")
    \/ \E f \in Fibers : Abort(f, TRUE)
    \/ \E f \in Fibers, i \in 1..limit : CbRun(f, i, FALSE, NoErr)
    \/ \E f \in Fibers, i \in 1..limit : CbNested(f, i)

SpecLate == InitLate /\ [][NextLate]_vars

\* ------------------------------------------------------ default options
\* setDefaultOptions(options): `defaultOptions = options`.
SetDefaultOptions(o) ==
    /\ defaultOptions' = o
    /\ lastPassed' = o
    /\ UNCHANGED <<callers, limit, delivered, dynamics, pc, frame, ctxs, sessions,
                   store, cbs, outcome, opsLog, opened>>

\* getDefaultOptions(): `return defaultOptions`.
GetDefaultOptions == defaultOptions

\* The default parameter `options = defaultOptions` of runInTransaction: the
\* initializer is evaluated at the call, when no argument was passed.
DefaultParameterEmpty(given, current) == IF given = NoOptions THEN EmptyOptions ELSE given

DefaultParameterMerged(given, current) ==
    IF given = NoOptions THEN current
    ELSE [retry |-> given.retry \/ current.retry,
          waitForCallbacks |-> given.waitForCallbacks \/ current.waitForCallbacks,
          catchCallbackErrors |-> given.catchCallbackErrors \/ current.catchCallbackErrors]

DefaultParameter(given, current) == IF given = NoOptions THEN current ELSE given

\* runInTransaction(fn), no options argument.
RunInTransactionNoOptions(f, startOk) ==
    RunInTransaction(f, DefaultParameter(NoOptions, defaultOptions), startOk)

\* One fiber that calls runInTransaction(fn) while the defaults are being set.
InitDefaults == Init /\ callers = {1} /\ limit = MaxOpsConc

NextDefaults ==
    \/ \E o \in Options : SetDefaultOptions(o)
    \/ \E f \in Fibers, startOk \in BOOLEAN : RunInTransactionNoOptions(f, startOk)
    \/ \E f \in Fibers, bound \in BOOLEAN : UowRegister(f, bound)
    \/ \E f \in Fibers : UowReturn(f)
    \/ \E f \in Fibers : UowRaise(f, UserErr)
    \/ \E f \in Fibers : DrainDone(f)
    \/ \E f \in Fibers : Commit(f, "ok")
    \/ \E f \in Fibers : Abort(f, TRUE)
    \/ \E f \in Fibers, i \in 1..limit, e \in {NoErr} \cup CbThrowables : CbRun(f, i, FALSE, e)

SpecDefaults == InitDefaults /\ [][NextDefaults]_vars

\* runInTransaction(fn, {}): an explicit options argument with no field set.
RunInTransactionEmptyOptions(f, startOk) ==
    RunInTransaction(f, DefaultParameter(EmptyOptions, defaultOptions), startOk)

\* One fiber that calls runInTransaction(fn, {}) while the defaults are
\* being set.
NextExplicit ==
    \/ \E o \in Options : SetDefaultOptions(o)
    \/ \E f \in Fibers, startOk \in BOOLEAN : RunInTransactionEmptyOptions(f, startOk)
    \/ \E f \in Fibers, bound \in BOOLEAN : UowRegister(f, bound)
    \/ \E f \in Fibers : UowReturn(f)
    \/ \E f \in Fibers : UowRaise(f, UserErr)
    \/ \E f \in Fibers : Commit(f, "ok")
    \/ \E f \in Fibers : Abort(f, TRUE)
    \/ \E f \in Fibers, i \in 1..limit, e \in {NoErr} \cup CbThrowables : CbRun(f, i, FALSE, e)

SpecExplicit == InitDefaults /\ [][NextExplicit]_vars

\* ---------------------------------------------------------------- claims
Done(f) == pc[f] = "done"

\* Documents in the store that fiber f's transaction wrote.
DocsOf(f) == {d \in store : d[1] = f /\ d[3] > 0}

NoWriteVisible(f) == DocsOf(f) = {} /\ Seed(f) \in store

UowWritesVisible(f) == frame[f].uIns \subseteq store /\ frame[f].uDel \cap store = {}

\* C1 as stated: when the unit of work raised, runInTransaction throws an
\* error with the unit of work's own message and none of the writes is in
\* the store.
C1_AtomicityOwnMessage ==
    \A f \in callers :
        Done(f) /\ frame[f].uowErr # NoErr =>
            /\ outcome[f].kind = "threw"
            /\ outcome[f].err.msg = frame[f].uowErr.msg
            /\ NoWriteVisible(f)

\* C1 amended: when the unit of work raised, runInTransaction throws and
\* none of the transaction's writes is in the store; the error thrown is the
\* unit of work's own, unless abortTransaction failed (then the abort
\* failure) or waitForCallbacks and catchCallbackErrors made the executor
\* raise a composite CallbackError.
C1_Atomicity ==
    \A f \in callers :
        Done(f) /\ frame[f].uowErr # NoErr =>
            /\ outcome[f].kind = "threw"
            /\ NoWriteVisible(f)
            /\ \/ outcome[f].err = frame[f].uowErr
               \/ outcome[f].err = AbortErr
               \/ /\ outcome[f].err.kind = "CallbackError"
                  /\ frame[f].wait /\ ctxs[f].catchCallbackErrors

C1_Witness ==
    \E f \in callers :
        /\ Done(f) /\ frame[f].uowErr = UserErr /\ outcome[f].err = UserErr
        /\ frame[f].uIns # {} /\ frame[f].uDel # {}

\* C2 as stated: when the unit of work returned and no callback error was
\* captured, runInTransaction returns the unit of work's value and every
\* write of the unit of work is in the store.
C2_CommitVisibilityAlways ==
    \A f \in callers :
        Done(f) /\ frame[f].uowRet # 0 /\ ctxs[f].callbackErrors = <<>> =>
            /\ outcome[f] = Returned(frame[f].uowRet)
            /\ UowWritesVisible(f)

\* C2 amended: when the unit of work returned and no callback error was
\* captured, then either commitTransaction succeeded, runInTransaction
\* returns the unit of work's value and every write of the unit of work is
\* in the store, or commitTransaction failed and runInTransaction throws
\* that failure (or the failure of the abort that follows it) with no write
\* in the store.
C2_CommitVisibility ==
    \A f \in callers :
        Done(f) /\ frame[f].uowRet # 0 /\ ctxs[f].callbackErrors = <<>> =>
            \/ /\ sessions[f].txn = "committed"
               /\ outcome[f] = Returned(frame[f].uowRet)
               /\ UowWritesVisible(f)
            \/ /\ sessions[f].txn = "aborted"
               /\ outcome[f].kind = "threw"
               /\ outcome[f].err \in {CommitErr, TransientErr, AbortErr}
               /\ NoWriteVisible(f)

C2_Witness ==
    \E f \in callers :
        /\ Done(f) /\ outcome[f].kind = "returned" /\ outcome[f].value = RetVal(f, 2)
        /\ frame[f].uIns # {} /\ frame[f].uDel # {}

\* C3: a runInTransaction call made while a context is ambient throws the
\* nesting error, opens no session and leaves the outer context, session
\* and slot as they were (so that, the error caught, the outer transaction
\* goes on).
C3_NestingRejected ==
    [][\A f \in Fibers :
          frame[f].nested = "no" /\ frame'[f].nested # "no" =>
              /\ frame'[f].nested \in {"caught", "thrown"}
              /\ frame'[f].nested = "thrown" => frame'[f].uowErr = NestedErr
              /\ frame'[f].nested = "caught" => pc'[f] = "body" /\ frame'[f].uowErr = NoErr
              /\ opened' = opened /\ ctxs' = ctxs /\ sessions' = sessions
              /\ dynamics' = dynamics]_vars

C3_Witness ==
    \E f \in callers :
        /\ Done(f) /\ frame[f].nested = "caught" /\ opened[f] = 1
        /\ outcome[f].kind = "returned" /\ sessions[f].txn = "committed"
        /\ frame[f].uIns # {} /\ UowWritesVisible(f)

\* C4 as stated: with waitForCallbacks, commitTransaction is not attempted
\* while a callback registered by the unit of work is still to complete.
C4_CommitAfterAllCallbacks ==
    \A f \in callers :
        pc[f] = "commit" /\ frame[f].wait =>
            \A i \in DOMAIN cbs[f] : cbs[f][i].st = "done"

\* C5 as stated: control never reaches commitTransaction with a captured
\* callback error in the context.
C5_NoCommitWithCapturedError ==
    [][\A f \in Fibers :
          pc[f] # "commit" /\ pc'[f] = "commit" => ctxs[f].callbackErrors = <<>>]_vars

\* C6 as stated: once runInTransaction has opened a session and ended, by
\* whatever path, endSession has been called on it exactly once.
C6_SessionReleasedOnce ==
    \A f \in callers :
        Done(f) /\ opened[f] > 0 => sessions[f].ended = 1

\* C7: when runInTransaction has ended (returned, thrown, or rejected as
\* nested) the slot holds what it held before the call; a rejected nested
\* call leaves the outer context bound.
C7_SlotRestored ==
    \A f \in callers :
        /\ Done(f) => Get(f) = frame[f].saved /\ Get(f) = NoCtx
        /\ pc[f] = "body" /\ frame[f].nested = "caught" => Get(f) = f

C7_Witness ==
    \E f \in callers :
        /\ Done(f) /\ opened[f] = 1 /\ frame[f].nested = "thrown"
        /\ outcome[f] = Threw(NestedErr) /\ Get(f) = NoCtx

\* C8: isInTransaction() is false where no context is ambient (before and
\* after the call), true inside the unit of work in either mode, and false
\* for a callback that still holds the context of a call that has ended.
C8_IsInTransaction ==
    \A f \in callers :
        /\ Get(f) = NoCtx => ~IsInTransaction(f)
        /\ pc[f] \in {"idle", "done"} => ~IsInTransaction(f)
        /\ pc[f] = "body" => IsInTransaction(f)
        /\ \A i \in DOMAIN cbs[f] :
              Done(f) /\ cbs[f][i].st = "pending" => ~IsInTransactionEnv(cbs[f][i].env)

C8_Witness ==
    \E f \in callers :
        /\ pc[f] = "body" /\ frame[f].retry /\ frame[f].attempt = 2
        /\ frame[f].nops = 2 /\ IsInTransaction(f)

\* C9: of two concurrent transactions, every operation a fiber issues (its
\* unit of work's and its callbacks') carries that fiber's own session, every
\* callback holds its own fiber's context, no call is rejected as nested,
\* and registering or running a callback of one transaction leaves the
\* other's context untouched.
C9_Isolation ==
    /\ [](\A f \in callers :
            /\ \A o \in opsLog : o[1] = f => o[2] = ctxs[f].session /\ o[2] = f
            /\ \A i \in DOMAIN cbs[f] : cbs[f][i].env = f
            /\ outcome[f].err # NestedErr)
    /\ [][\A f, g \in Fibers :
            f # g /\ cbs'[f] # cbs[f] => ctxs'[g] = ctxs[g]]_vars

C9_Witness ==
    /\ pc[1] = "body" /\ pc[2] = "drain"
    /\ <<1, 1>> \in opsLog /\ <<2, 2>> \in opsLog
    /\ ctxs[1].callbackCount = 1 /\ ctxs[2].callbackCount = 1

\* C10: of two clients running insertInvoice at once, one whose call threw
\* has no document in the store and one whose call returned has exactly its
\* invoice and two items, the documents its result names.
C10_ConcurrentAtomicity ==
    \A f \in callers :
        Done(f) =>
            /\ outcome[f].kind = "threw" => NoWriteVisible(f)
            /\ outcome[f].kind = "returned" =>
                  /\ outcome[f].value = RetVal(f, 1)
                  /\ DocsOf(f) = {<<f, n, 1>> : n \in 1..InvoiceInserts}

C10_Witness ==
    /\ Done(1) /\ Done(2)
    /\ outcome[1] = Threw(UserErr) /\ frame[1].nops = 2
    /\ outcome[2].kind = "returned" /\ Cardinality(DocsOf(2)) = InvoiceInserts

C12_TransparentOutside ==
    /\ delivered.called /\ delivered.ctx = NoCtx /\ ~delivered.fatal =>
          delivered.received = delivered.args
    /\ \A f \in Fibers : pc[f] = "idle" => ctxs[f].callbackCount = 0 /\ cbs[f] = <<>>

\* C13 as stated: a patched method called under a context hands the original
\* method, in its options position, one options object whose session is the
\* context's and which keeps the caller's other option keys.
C13_SessionInjected ==
    delivered.called /\ delivered.ctx # NoCtx /\ ~delivered.fatal =>
        LET o     == At(delivered.received, delivered.k + 1)
            given == At(delivered.args, delivered.k + 1)
        IN  /\ o.k = "opts"
            /\ o.session = ctxs[delivered.ctx].session
            /\ o.key = (given.k = "opts" /\ given.key)

\* C14 as stated (its first part): in direct mode with waitForCallbacks,
\* when the unit of work raised, abortTransaction is not reached while a
\* callback the unit of work registered is still to finish; and none of the
\* writes is in the store afterwards.
C14_DrainBeforeAbort ==
    \A f \in callers :
        ~frame[f].retry /\ frame[f].wait /\ frame[f].uowErr # NoErr =>
            /\ pc[f] = "abort" => \A i \in DOMAIN cbs[f] : cbs[f][i].st = "done"
            /\ Done(f) => NoWriteVisible(f)

\* C15: in direct mode an error of the unit of work, of the drain (the
\* composite callback error) or of commitTransaction takes control to
\* abortTransaction, and when that succeeds the error that reached the catch
\* block is the one runInTransaction throws; the transaction is aborted.
C15_AbortThenRethrow ==
    /\ [](\A f \in callers :
            Done(f) /\ ~frame[f].retry /\ frame[f].err # NoErr =>
                /\ sessions[f].txn = "aborted"
                /\ outcome[f].kind = "threw"
                /\ ~frame[f].abortFailed => outcome[f].err = frame[f].err
                /\ \/ frame[f].err = frame[f].uowErr
                   \/ frame[f].err \in {CommitErr, TransientErr} /\ frame[f].uowErr = NoErr
                   \/ LET n == Len(frame[f].err.errors)
                      IN  /\ n \in 1..Len(ctxs[f].callbackErrors)
                          /\ frame[f].err =
                                CreateCallbackError(SubSeq(ctxs[f].callbackErrors, 1, n)))
    /\ [][\A f \in Fibers :
            ~frame[f].retry /\ frame'[f].err # NoErr /\ pc[f] # "done" /\ pc'[f] = "done" =>
                pc[f] = "abort"]_vars

C15_Witness ==
    \E f \in callers :
        /\ Done(f) /\ ~frame[f].retry /\ ~frame[f].abortFailed
        /\ frame[f].uowRet # 0 /\ frame[f].uIns # {}
        /\ outcome[f] = Threw(CommitErr)

\* C16: in direct mode, when abortTransaction fails while an earlier error
\* is being handled, runInTransaction throws the abort failure, not the
\* earlier error, and endSession has been called once.
C16_DoubleFault ==
    \A f \in callers :
        Done(f) /\ ~frame[f].retry /\ frame[f].abortFailed =>
            /\ frame[f].err \notin {NoErr, AbortErr}
            /\ outcome[f] = Threw(AbortErr)
            /\ sessions[f].ended = 1

C16_Witness ==
    \E f \in callers :
        /\ Done(f) /\ ~frame[f].retry /\ frame[f].abortFailed
        /\ frame[f].uowErr = UserErr /\ frame[f].uIns # {}

\* C17 as stated: no operation is handed to the driver with a session on
\* which endSession has been called.
C17_NoUseAfterRelease ==
    delivered.called /\ ~delivered.fatal => delivered.live

\* C17 amended: no operation issued by the calling fiber itself (inside the
\* unit of work, or before or after the runInTransaction call) carries an
\* ended session; an operation carries an ended session only when a wrapped
\* callback issues it after its runInTransaction call has ended, and then it
\* carries the session of the context the callback captured.
C17_UseAfterReleaseOnlyByLateCallback ==
    delivered.called /\ ~delivered.fatal =>
        /\ delivered.by = "fiber" => delivered.live
        /\ ~delivered.live =>
              /\ delivered.by = "callback"
              /\ Done(delivered.f)
              /\ At(delivered.received, delivered.k + 1).session = ctxs[delivered.ctx].session
              /\ sessions[ctxs[delivered.ctx].session].ended = 1

C17_Witness ==
    /\ delivered.called /\ delivered.by = "callback" /\ ~delivered.live
    /\ Done(delivered.f) /\ ~frame[delivered.f].wait
    /\ outcome[delivered.f].kind = "returned"

\* C18 as stated (as a condition on states): with waitForCallbacks, once
\* every callback registered under the transaction has been invoked and has
\* finished, the wait for the callbacks can end.
C18_DrainCanEnd ==
    \A f \in callers :
        pc[f] = "drain" /\ (\A i \in DOMAIN cbs[f] : cbs[f][i].st = "done") =>
            PromiseResolved(f, f)

\* C19: with waitForCallbacks, when callbackCount is 0 as the unit of work
\* ends, control goes straight to the commit or abort decision and never
\* waits for the callbacks.
C19_NoWaitWithoutCallbacks ==
    /\ [][\A f \in Fibers :
            pc[f] = "body" /\ pc'[f] # "body" /\ frame[f].wait /\ ctxs[f].callbackCount = 0 =>
                pc'[f] = IF frame'[f].uowErr = NoErr THEN "commit" ELSE "abort"]_vars
    /\ [](\A f \in callers : pc[f] = "drain" => cbs[f] # <<>>)

C19_Witness ==
    \E f \in callers :
        /\ Done(f) /\ frame[f].wait /\ cbs[f] = <<>>
        /\ frame[f].uIns # {} /\ outcome[f].kind = "returned"

\* C20 as stated (without the order): with waitForCallbacks and
\* catchCallbackErrors, when the unit of work did not raise, two callbacks
\* have each raised an error and both errors were captured, runInTransaction
\* throws one CallbackError that carries the two errors (or the failure of
\* abortTransaction).
C20_CompositeOfTwo ==
    \A f \in callers :
        /\ Done(f) /\ frame[f].wait /\ ctxs[f].catchCallbackErrors
        /\ frame[f].uowErr = NoErr
        /\ Len(ctxs[f].callbackErrors) = 2
        /\ \A i \in DOMAIN cbs[f] : cbs[f][i].st = "done"
        => \/ frame[f].abortFailed
           \/ /\ outcome[f].kind = "threw"
              /\ outcome[f].err = CreateCallbackError(ctxs[f].callbackErrors)
              /\ Len(outcome[f].err.errors) = 2

\* C21: getDefaultOptions() returns the value most recently passed to
\* setDefaultOptions (an empty options object before the first call); only a
\* setDefaultOptions call changes it (such a step touches nothing else and
\* stores its argument); and a runInTransaction call without an options
\* argument sets up the executor and the context exactly as a call with the
\* current default options would.
C21_DefaultOptions ==
    /\ [](GetDefaultOptions = IF lastPassed = NoOptions THEN EmptyOptions ELSE lastPassed)
    /\ [][/\ defaultOptions' # defaultOptions
             => /\ lastPassed' = defaultOptions'
                /\ UNCHANGED <<callers, limit, delivered, dynamics, pc, frame, ctxs,
                               sessions, store, cbs, outcome, opsLog, opened>>
          /\ \A f \in Fibers :
                pc[f] = "idle" /\ pc'[f] # "idle"
                => /\ frame'[f].retry = defaultOptions.retry
                   /\ frame'[f].wait = defaultOptions.waitForCallbacks
                   /\ ctxs'[f] = NewContext(f, defaultOptions)
                   /\ defaultOptions' = defaultOptions]_vars

\* A call without options ran to a normal return under defaults that had been
\* set to retrying, waiting and catching; the defaults were changed afterwards.
C21_Witness ==
    \E f \in Fibers :
        /\ Done(f) /\ outcome[f].kind = "returned"
        /\ frame[f].retry /\ frame[f].wait /\ ctxs[f].catchCallbackErrors
        /\ lastPassed # NoOptions /\ ~GetDefaultOptions.retry

\* C22: every invocation of a wrapped callback lowers the callbackCount of
\* its context by exactly one, whether the callback returns or raises.
C22_AlwaysDecrements ==
    [][\A f \in Fibers : \A i \in DOMAIN cbs[f] :
          /\ cbs[f][i].tracked
          /\ cbs[f][i].st = "pending"
          /\ cbs'[f][i].st = "done"
          => ctxs'[cbs[f][i].env].callbackCount = ctxs[cbs[f][i].env].callbackCount - 1]_vars

\* C23 (as stated): over the life of a context resolveCallbacks is invoked
\* at most once.
C23_ResolvedAtMostOnce ==
    \A c \in Fibers : ctxs[c].resolveCalls <= 1

\* C23: resolveCallbacks is invoked exactly at the steps where the
\* callbackCount of its context goes from a positive value to 0, once per
\* such step; it is invoked again each time the count returns to 0.
C23_ResolvedAtZero ==
    [][\A c \in Fibers :
          /\ ctxs'[c].resolveCalls # ctxs[c].resolveCalls
             <=> ctxs[c].callbackCount > 0 /\ ctxs'[c].callbackCount = 0
          /\ ctxs'[c].resolveCalls \in {ctxs[c].resolveCalls, ctxs[c].resolveCalls + 1}]_vars

\* The count of a context returned to 0 twice: a callback was registered
\* after the first one had completed, and resolveCallbacks ran again.
C23_Witness ==
    \E c \in Fibers : ctxs[c].resolveCalls = 2 /\ ctxs[c].callbackCount = 0

\* C24: in every reachable state the callbackCount of a context is not
\* negative and equals the number of callbacks wrapped under that context
\* that have not finished yet.
C24_CounterInvariant ==
    \A c \in Fibers :
        /\ ctxs[c].callbackCount >= 0
        /\ ctxs[c].callbackCount =
              Cardinality({<<f, i>> \in Fibers \X (1..InvoiceInserts) :
                              /\ i \in DOMAIN cbs[f]
                              /\ cbs[f][i].tracked
                              /\ cbs[f][i].env = c
                              /\ cbs[f][i].st = "pending"})

\* The caller passed a callback to the method with k business parameters:
\* a bare function in the options-or-callback position, or a function after
\* the options.
HasCallback(k, args) ==
    /\ Len(args) \in {k + 1, k + 2}
    /\ args[Len(args)].k = "fn"

\* C25: when a patched method is called with a callback under a context, the
\* callbackCount the original method finds at its invocation is already one
\* higher than before the call; and as long as a callback wrapped under a
\* context has not completed, the callbackCount of that context is not 0.
C25_IncrementBeforeDispatch ==
    /\ /\ delivered.called /\ delivered.by = "fiber" /\ delivered.ctx # NoCtx
       /\ ~delivered.fatal /\ HasCallback(delivered.k, delivered.args)
       => delivered.counts[2] = delivered.counts[1] + 1
    /\ \A f \in Fibers : \A i \in DOMAIN cbs[f] :
          cbs[f][i].tracked /\ cbs[f][i].st = "pending"
          => ctxs[cbs[f][i].env].callbackCount > 0

\* The unit of work has registered a second callback (the count went from 1
\* to 2) and waits for both.
C25_Witness ==
    /\ delivered.called /\ delivered.by = "fiber" /\ delivered.ctx # NoCtx
    /\ HasCallback(delivered.k, delivered.args)
    /\ delivered.counts = <<1, 2>>
    /\ pc[delivered.f] = "drain"
    /\ ctxs[delivered.ctx].callbackCount = 2

\* The steps of one direct-mode runInTransaction call, as moves of the
\* caller's position: startSession and startTransaction (idle -> body), the
\* operations of the unit of work (body -> body), the drain, then
\* commitTransaction (entered from body or drain) or abortTransaction
\* (entered from body, drain or a failed commit), then endSession (-> done).
DirectMoves ==
    {<<"idle", "body">>, <<"body", "body">>, <<"body", "drain">>, <<"drain", "drain">>,
     <<"body", "commit">>, <<"drain", "commit">>,
     <<"body", "abort">>, <<"drain", "abort">>, <<"commit", "abort">>,
     <<"commit", "done">>, <<"abort", "done">>}

\* C26: in direct mode the backend sees startSession, startTransaction, the
\* operations of the unit of work, then commitTransaction or
\* abortTransaction, then endSession; commitTransaction is reached at most
\* once and only after the unit of work returned normally, abortTransaction
\* at most once and never after a commit that succeeded, and a call that
\* opened a session ends with the session ended and the transaction
\* committed or aborted.
C26_DirectProtocolOrder ==
    [][\A f \in callers :
          ~frame'[f].retry /\ opened'[f] > 0 /\ pc'[f] # pc[f] =>
             /\ <<pc[f], pc'[f]>> \in DirectMoves
             /\ pc'[f] = "body" =>
                   opened'[f] = 1 /\ sessions'[f].txn = "active" /\ sessions'[f].ended = 0
             /\ pc'[f] = "commit" =>
                   frame'[f].uowErr = NoErr /\ sessions'[f].txn = "active"
             /\ pc'[f] = "abort" =>
                   sessions'[f].txn = "active" /\ frame'[f].err # NoErr
             /\ pc'[f] = "done" =>
                   /\ sessions'[f].ended = 1
                   /\ sessions'[f].txn \in {"committed", "aborted"}
                   /\ sessions'[f].txn = "committed" <=> pc[f] = "commit"]_vars

C28_RetryDrainsEveryAttempt ==
    \A f \in callers :
        pc[f] = "commit" /\ frame[f].retry /\ frame[f].wait =>
            \A i \in DOMAIN cbs[f] :
                cbs[f][i].a = frame[f].attempt => cbs[f][i].st = "done"

\* C29: a call of a patched method with more arguments than the method's
\* maximum (its number of business parameters plus 2) throws the fatal error; the original method is not invoked, no
\* callback is wrapped and no callbackCount changes, with or without an
\* ambient context.
C29_ArityGuard ==
    [][\A f \in Fibers :
          /\ frame'[f].nops = frame[f].nops + 1
          /\ delivered'.by = "fiber" /\ delivered'.f = f
          /\ Len(delivered'.args) > delivered'.k + 2
          => /\ delivered'.fatal
             /\ delivered'.received = <<>>
             /\ delivered'.counts[2] = delivered'.counts[1]
             /\ opsLog' = opsLog /\ ctxs' = ctxs /\ cbs' = cbs
             /\ pc[f] = "body" => frame'[f].uowErr = FatalErr /\ pc'[f] # "body"]_vars

\* Under a context that has one callback pending, a call with one argument
\* too many (a callback among them) was refused and the unit of work ended
\* by the fatal error.
C29_Witness ==
    /\ delivered.called /\ delivered.fatal /\ delivered.ctx # NoCtx
    /\ delivered.counts = <<1, 1>>
    /\ \E i \in DOMAIN delivered.args : delivered.args[i].k = "fn"
    /\ frame[delivered.f].uowErr = FatalErr
    /\ ctxs[delivered.ctx].callbackCount = 1

\* C30: under a context, a patched method called with a callback (a bare
\* function in the options-or-callback position, or a function after the
\* options) hands the original method a wrapped callback in the callback
\* position, and nothing else wrapped, and the call raises callbackCount by
\* exactly 1; called without a callback it hands the original method no
\* function in the callback position and leaves callbackCount as it was.
C30_CallbackWrapping ==
    delivered.called /\ delivered.by = "fiber" /\ delivered.ctx # NoCtx /\ ~delivered.fatal =>
        LET cb      == At(delivered.received, delivered.k + 2)
            wrapped == {i \in DOMAIN delivered.received : delivered.received[i].wrapped}
        IN  IF HasCallback(delivered.k, delivered.args)
            THEN /\ cb.k = "fn" /\ cb.wrapped
                 /\ wrapped = {delivered.k + 2}
                 /\ delivered.counts[2] - delivered.counts[1] = 1
            ELSE /\ cb.k # "fn"
                 /\ wrapped = {}
                 /\ delivered.counts[2] - delivered.counts[1] = 0

\* A two-parameter method was called under a context with (a, b, callback):
\* the original received (a, b, {session}, wrapped callback).
C30_Witness ==
    /\ delivered.called /\ delivered.by = "fiber" /\ delivered.ctx # NoCtx
    /\ delivered.k = 2
    /\ delivered.args = <<Param, Param, Fn>>
    /\ delivered.received =
          <<Param, Param, Opts(ctxs[delivered.ctx].session, FALSE), Wrap(Fn)>>
    /\ delivered.counts = <<0, 1>>

\* C31: the original find receives the caller's query and, under a context,
\* options that keep the caller's other keys and carry the context's
\* session (also when the caller passed a session of its own); without a
\* context it receives the caller's query and options as they are; no
\* callback is wrapped and callbackCount stays as it was.
C31_FindSpecialCase ==
    delivered.called =>
        LET given == At(delivered.args, 2)
            o     == At(delivered.received, 2)
        IN  /\ ~delivered.fatal
            /\ Len(delivered.received) = 2
            /\ delivered.received[1] = At(delivered.args, 1)
            /\ IF delivered.ctx = NoCtx
               THEN o = given
               ELSE /\ o.k = "opts"
                    /\ o.session = ctxs[delivered.ctx].session
                    /\ o.key = (given.k = "opts" /\ given.key)
            /\ \A i \in DOMAIN delivered.received : ~delivered.received[i].wrapped
            /\ delivered.counts[2] = delivered.counts[1]

\* Under a context with one callback pending, find was called with options
\* that carried the caller's own session and with a function after them: the
\* original received the context's session and the count is still 1.
C31_Witness ==
    /\ delivered.called /\ delivered.ctx # NoCtx
    /\ delivered.args = <<Param, Opts(CallerSession, TRUE), Fn>>
    /\ delivered.received = <<Param, Opts(ctxs[delivered.ctx].session, TRUE)>>
    /\ delivered.counts = <<1, 1>>
    /\ ctxs[delivered.ctx].callbackCount = 1

\* C32: the catchCallbackErrors flag of a context is set at its creation to
\* "waitForCallbacks and catchCallbackErrors" of the options in effect and
\* never changes afterwards; while it is false the context's callbackErrors
\* stays empty and the call does not end with a composite CallbackError.
C32_CaptureGated ==
    [][\A f \in callers :
          /\ pc[f] = "idle" /\ pc'[f] # "idle" =>
                ctxs'[f].catchCallbackErrors =
                    (defaultOptions.waitForCallbacks /\ defaultOptions.catchCallbackErrors)
          /\ pc[f] # "idle" =>
                ctxs'[f].catchCallbackErrors = ctxs[f].catchCallbackErrors
          /\ ~ctxs'[f].catchCallbackErrors =>
                /\ ctxs'[f].callbackErrors = <<>>
                /\ frame'[f].err.kind # "CallbackError"
                /\ outcome'[f].err.kind # "CallbackError"]_vars

\* The options asked for catchCallbackErrors without waitForCallbacks; a
\* callback registered in the transaction raised (it finished and the count
\* was not lowered), nothing was captured and the call returned.
C32_Witness ==
    \E f \in callers :
        /\ Done(f) /\ outcome[f].kind = "returned"
        /\ ~frame[f].wait /\ ~ctxs[f].catchCallbackErrors
        /\ lastPassed # NoOptions /\ lastPassed.catchCallbackErrors /\ ~lastPassed.waitForCallbacks
        /\ Len(cbs[f]) = 1 /\ cbs[f][1].st = "done" /\ ~cbs[f][1].bound
        /\ ctxs[f].callbackCount = 1
        /\ ctxs[f].callbackErrors = <<>>

\* The composite error the executor holds or has thrown, if any.
Composite(f) ==
    IF outcome[f].err.kind = "CallbackError" THEN outcome[f].err ELSE frame[f].err

\* C33 (as stated): the composite error's message is the first captured
\* error's message when that value is an Error, and the fixed text otherwise.
C33_MessageErrorOrFixed ==
    \A f \in callers :
        Composite(f).kind = "CallbackError" =>
            Composite(f).msg =
                IF IsErrorInstance(Composite(f).errors[1])
                THEN Composite(f).errors[1].msg
                ELSE "Unknown callback error."

\* C33: a composite error carries the captured errors in the order in which
\* they were captured (the first ones of the context's list, which only
\* grows at its end); its message is the first captured value itself when
\* that is a string, its message when it is an Error, and the fixed text
\* otherwise.
C33_CompositeConstruction ==
    [][\A f \in callers :
          /\ pc[f] # "idle" =>
                /\ Len(ctxs'[f].callbackErrors) >= Len(ctxs[f].callbackErrors)
                /\ SubSeq(ctxs'[f].callbackErrors, 1, Len(ctxs[f].callbackErrors))
                      = ctxs[f].callbackErrors
          /\ frame'[f].err.kind = "CallbackError" =>
                LET ce    == frame'[f].err
                    first == ce.errors[1]
                IN  /\ Len(ce.errors) \in 1..Len(ctxs'[f].callbackErrors)
                    /\ ce.errors = SubSeq(ctxs'[f].callbackErrors, 1, Len(ce.errors))
                    /\ ce.msg = IF first.kind = "string" THEN first.msg
                                ELSE IF IsErrorInstance(first) THEN first.msg
                                ELSE "Unknown callback error."
                    /\ outcome'[f].err.kind = "CallbackError" => outcome'[f].err = ce]_vars

\* A call threw a composite error of two captured values, the first of them
\* not an Error and not a string.
C33_Witness ==
    \E f \in callers :
        /\ Done(f) /\ outcome[f].err.kind = "CallbackError"
        /\ Len(outcome[f].err.errors) = 2
        /\ outcome[f].err.errors[1].kind = "object"
        /\ outcome[f].err.errors[2].kind = "string"
        /\ outcome[f].err.msg = "Unknown callback error."

\* C34: without waitForCallbacks the executor goes from the unit of work
\* straight to commitTransaction (it returned) or abortTransaction (it
\* raised), whatever callbackCount is, and never waits; and once the call has
\* ended, nothing a callback does afterwards changes its outcome.
C34_NoWaitWithoutOption ==
    [][\A f \in callers :
          /\ ~frame'[f].wait => pc'[f] # "drain"
          /\ ~frame[f].wait /\ pc[f] = "body" /\ pc'[f] # "body" =>
                pc'[f] = IF frame'[f].uowErr = NoErr THEN "commit" ELSE "abort"
          /\ Done(f) => outcome'[f] = outcome[f] /\ pc'[f] = pc[f]]_vars

\* A call without waitForCallbacks has returned, its transaction committed
\* and its session ended, while a callback registered in it is still to run.
C34_Witness ==
    \E f \in callers :
        /\ Done(f) /\ ~frame[f].wait /\ ~frame[f].retry
        /\ outcome[f].kind = "returned"
        /\ sessions[f].txn = "committed" /\ sessions[f].ended = 1
        /\ Len(cbs[f]) > 0 /\ cbs[f][1].st = "pending" /\ cbs[f][1].tracked
        /\ ctxs[f].callbackCount > 0

\* C35 (as stated): in direct mode with waitForCallbacks and
\* catchCallbackErrors, when the unit of work raised and callbackErrors is
\* not empty after the drain, the composite CallbackError goes to the catch
\* block and is what the caller gets, with the transaction aborted and the
\* session ended.
C35_CompositeOverrides ==
    [][\A f \in callers :
          /\ /\ pc[f] = "drain" /\ pc'[f] # "drain"
             /\ frame[f].uowErr # NoErr /\ ctxs[f].callbackErrors # <<>>
             => frame'[f].err.kind = "CallbackError" /\ pc'[f] = "abort"
          /\ /\ pc[f] = "abort" /\ pc'[f] = "done"
             /\ frame[f].uowErr # NoErr /\ frame[f].err.kind = "CallbackError"
             => /\ outcome'[f] = Threw(frame[f].err)
                /\ sessions'[f].txn = "aborted" /\ sessions'[f].ended = 1]_vars

\* C35: the same, when the first captured value is truthy and
\* abortTransaction succeeds; when the first captured value is falsy the
\* unit of work's own error stays the one in flight, and when
\* abortTransaction fails its error is the one thrown.  In every case the
\* transaction ends aborted and the session ended.
C35_CompositeOverridesIfAbortSucceeds ==
    [][\A f \in callers :
          /\ /\ pc[f] = "drain" /\ pc'[f] # "drain"
             /\ frame[f].uowErr # NoErr /\ ctxs[f].callbackErrors # <<>>
             => /\ pc'[f] = "abort"
                /\ frame'[f].err =
                      IF Truthy(ctxs[f].callbackErrors[1])
                      THEN CreateCallbackError(ctxs[f].callbackErrors)
                      ELSE frame[f].uowErr
          /\ /\ pc[f] = "abort" /\ pc'[f] = "done"
             /\ frame[f].uowErr # NoErr /\ frame[f].err.kind = "CallbackError"
             => /\ outcome'[f] = Threw(IF frame'[f].abortFailed THEN AbortErr ELSE frame[f].err)
                /\ sessions'[f].txn = "aborted" /\ sessions'[f].ended = 1]_vars

\* The unit of work raised, a callback's Error was captured during the
\* drain, abortTransaction succeeded and the caller got the composite error.
C35_Witness ==
    \E f \in callers :
        /\ Done(f) /\ frame[f].wait /\ ctxs[f].catchCallbackErrors /\ ~frame[f].retry
        /\ frame[f].uowErr = UserErr
        /\ ~frame[f].abortFailed
        /\ outcome[f].kind = "threw"
        /\ outcome[f].err = CreateCallbackError(<<Err("Error", "fail")>>)
        /\ sessions[f].txn = "aborted" /\ sessions[f].ended = 1

\* C36: when a wrapped callback that runs after its transaction has
\* committed or aborted and ended its session calls runInTransaction, the call
\* is rejected as nested and opens no session (nor touches any), while
\* isInTransaction() called by the same callback returns false.
C36_NestingFollowsContext ==
    [][\A f \in callers : \A i \in DOMAIN cbs[f] :
          /\ cbs[f][i].st = "pending" /\ cbs'[f][i].st = "done"
          /\ delivered' # delivered /\ delivered'.cb = i
          /\ Done(f) /\ sessions[f].ended = 1
          /\ sessions[f].txn \in {"committed", "aborted"}
          => /\ ~delivered'.live
             /\ delivered'.nested = "rejected"
             /\ ~delivered'.inTxn
             /\ opened' = opened /\ sessions' = sessions /\ outcome' = outcome]_vars

\* A callback registered in a transaction that has since committed called
\* runInTransaction and was rejected.
C36_Witness ==
    /\ delivered.called /\ delivered.nested = "rejected" /\ ~delivered.live
    /\ ~delivered.inTxn
    /\ Done(delivered.f) /\ sessions[delivered.f].txn = "committed"
    /\ opened[delivered.f] = 1
    /\ Len(cbs[delivered.f]) = 1 /\ cbs[delivered.f][1].st = "done"

\* C37: a runInTransaction call given the explicit options {} runs in direct
\* mode, without waiting for callbacks and without capturing their errors,
\* whatever the default options are, and leaves the default options as they
\* were.
C37_ExplicitReplacesDefaults ==
    [][\A f \in callers :
          /\ pc[f] = "idle" /\ pc'[f] # "idle" =>
                /\ ~frame'[f].retry /\ ~frame'[f].wait
                /\ ctxs'[f] = NewContext(f, EmptyOptions)
                /\ defaultOptions' = defaultOptions
          /\ pc[f] # "idle" =>
                /\ frame'[f].retry = frame[f].retry /\ frame'[f].wait = frame[f].wait
                /\ pc'[f] # "drain"]_vars

\* Under defaults that ask for retrying, waiting and capturing, a call with
\* the options {} has returned in direct mode while its callback is still
\* to run; the defaults are what they were.
C37_Witness ==
    \E f \in callers :
        /\ Done(f) /\ outcome[f].kind = "returned"
        /\ ~frame[f].retry /\ ~frame[f].wait /\ ~ctxs[f].catchCallbackErrors
        /\ Len(cbs[f]) = 1 /\ cbs[f][1].st = "pending"
        /\ GetDefaultOptions = [retry |-> TRUE, waitForCallbacks |-> TRUE,
                                catchCallbackErrors |-> TRUE]

====
